---- MODULE Spec2Model ----
(***************************************************************************)
(* Partition index stitching (dragons/meraxes/io.py) and the history       *)
(* walker (dragons/meraxes/galaxy_history.py).                             *)
(*                                                                         *)
(* A catalog is the content of the HDF5 master file:                       *)
(*   cat.NCores              file attribute NCores                         *)
(*   cat.Snaps               the snapshot numbers that have a Snap%03d     *)
(*                           group                                         *)
(*   cat.Snap[s].NGalaxies   group attribute NGalaxies                     *)
(*   cat.Snap[s].Core[i+1]   group Core<i>: the datasets Galaxies,         *)
(*                           FirstProgenitorIndices,                       *)
(*                           NextProgenitorIndices, DescendantIndices      *)
(* numpy arrays are sequences; python index i is position i+1.             *)
(***************************************************************************)
EXTENDS Integers, Sequences, FiniteSets, TLC

VARIABLES cat, pc, gal_id, snapshot, future_snapshot, start_ind,
          merged_snapshot, history, ind, last_ind, snap, result, log,
          kind, out, meraxes_h

vars == <<cat, pc, gal_id, snapshot, future_snapshot, start_ind,
          merged_snapshot, history, ind, last_ind, snap, result, log,
          kind, out, meraxes_h>>

----------------------------------------------------------------------------
(* Bounds of the model.                                                    *)

\* number of partitions (file attribute NCores) of the catalogs explored
NCores == 2
\* last snapshot of the catalogs the walker is run on (snapshots 0..LastSnap)
LastSnap == 5
\* most galaxies one partition holds in the catalogs the stitcher is run on
MaxCoreGals == 2
\* most calls made on one catalog in a run of the stitcher
MaxCalls == 2

----------------------------------------------------------------------------
(* numpy / h5py primitives.                                                *)

Ok(v) == [err |-> "none", val |-> v]
Raise(e) == [err |-> e, val |-> <<>>]

\* np.zeros(n, 'i4')
zeros(n) == [k \in 1..n |-> 0]

\* a[i] for a python index i (negative indices count from the end)
PyIndex(a, i) ==
    IF i >= 0 /\ i < Len(a) THEN Ok(a[i + 1])
    ELSE IF i < 0 /\ i >= -Len(a) THEN Ok(a[Len(a) + i + 1])
    ELSE Raise("IndexError")

\* np.cumsum
RECURSIVE cumsum(_)
cumsum(a) ==
    IF Len(a) = 0 THEN <<>>
    ELSE LET head == cumsum(SubSeq(a, 1, Len(a) - 1))
         IN  Append(head, (IF Len(head) = 0 THEN 0 ELSE head[Len(head)]) + a[Len(a)])

\* group["Core{:d}".format(i_core)]
CoreGroup(group, i_core) == group.Core[i_core + 1]

\* ds.read_direct(arr, dest_sel=np.s_[counter:core_nvals+counter])
read_direct(ds, arr, counter) ==
    [k \in 1..Len(arr) |->
        IF k > counter /\ k <= counter + Len(ds) THEN ds[k - counter] ELSE arr[k]]

\* the offset added to every element of the slice, the sentinel included
add_offset_unmasked(arr, counter, core_nvals, offset) ==
    [k \in 1..Len(arr) |->
        IF k > counter /\ k <= counter + core_nvals
        THEN arr[k] + offset ELSE arr[k]]

\* the offset added to every element that is not the sentinel
add_offset_not_sentinel(arr, counter, core_nvals, offset) ==
    [k \in 1..Len(arr) |->
        IF k > counter /\ k <= counter + core_nvals /\ arr[k] # -1
        THEN arr[k] + offset ELSE arr[k]]

\* arr[dest_sel][arr[dest_sel] > -1] += offset
add_offset(arr, counter, core_nvals, offset) ==
    [k \in 1..Len(arr) |->
        IF k > counter /\ k <= counter + core_nvals /\ arr[k] > -1
        THEN arr[k] + offset ELSE arr[k]]

----------------------------------------------------------------------------
(* Partition Index Stitcher: io.py.                                        *)

\* the size of each core counted into its own offset
core_offsets_inclusive(adj_group, n_cores) ==
    cumsum([k \in 1..n_cores |-> Len(CoreGroup(adj_group, k - 1).Galaxies)])

\* io.py 574-581: the offsets for each core, from the Galaxies sizes of the
\* adjacent snapshot group
core_offsets(adj_group, n_cores) ==
    cumsum([k \in 1..n_cores |->
              IF k = 1 THEN 0 ELSE Len(CoreGroup(adj_group, k - 2).Galaxies)])

\* io.py 587-596: the loop over the cores of read_firstprogenitor_indices
RECURSIVE fp_loop(_, _, _, _, _, _)
fp_loop(snap_group, prev_core_counter, n_cores, i_core, counter, fp_ind) ==
    IF i_core >= n_cores THEN Ok(fp_ind)
    ELSE LET ds == CoreGroup(snap_group, i_core).FirstProgenitorIndices
             core_nvals == Len(ds)
         IN  IF core_nvals > 0
             THEN IF counter + core_nvals > Len(fp_ind)
                  THEN Raise("TypeError")
                  ELSE fp_loop(snap_group, prev_core_counter, n_cores, i_core + 1,
                               counter + core_nvals,
                               add_offset(read_direct(ds, fp_ind, counter), counter,
                                          core_nvals, prev_core_counter[i_core + 1]))
             ELSE fp_loop(snap_group, prev_core_counter, n_cores, i_core + 1,
                          counter, fp_ind)

\* the offsets taken from the snapshot's own partitions
read_firstprogenitor_indices_own(c, snapshot_) ==
    IF snapshot_ \notin c.Snaps \/ (snapshot_ - 1) \notin c.Snaps
    THEN Raise("KeyError")
    ELSE LET n_cores == c.NCores
             snap_group == c.Snap[snapshot_]
             n_gals == snap_group.NGalaxies
         IN  fp_loop(snap_group, core_offsets(snap_group, n_cores),
                     n_cores, 0, 0, zeros(n_gals))

\* io.py 534-601 (pandas=False)
read_firstprogenitor_indices(c, snapshot_) ==
    IF snapshot_ \notin c.Snaps \/ (snapshot_ - 1) \notin c.Snaps
    THEN Raise("KeyError")
    ELSE LET n_cores == c.NCores
             snap_group == c.Snap[snapshot_]
             prev_snap_group == c.Snap[snapshot_ - 1]
             n_gals == snap_group.NGalaxies
         IN  fp_loop(snap_group, core_offsets(prev_snap_group, n_cores),
                     n_cores, 0, 0, zeros(n_gals))

\* the counter advanced before the offset is added, as in the two other loops
RECURSIVE np_loop_incremented(_, _, _, _, _)
np_loop_incremented(snap_group, n_cores, i_core, counter, np_ind) ==
    IF i_core >= n_cores THEN Ok(np_ind)
    ELSE LET ds == CoreGroup(snap_group, i_core).NextProgenitorIndices
             core_nvals == Len(ds)
         IN  IF core_nvals > 0
             THEN IF counter + core_nvals > Len(np_ind)
                  THEN Raise("TypeError")
                  ELSE np_loop_incremented(snap_group, n_cores, i_core + 1,
                               counter + core_nvals,
                               add_offset(read_direct(ds, np_ind, counter), counter,
                                          core_nvals, counter + core_nvals))
             ELSE np_loop_incremented(snap_group, n_cores, i_core + 1, counter, np_ind)

\* io.py 644-652: the loop over the cores of read_nextprogenitor_indices
RECURSIVE np_loop(_, _, _, _, _)
np_loop(snap_group, n_cores, i_core, counter, np_ind) ==
    IF i_core >= n_cores THEN Ok(np_ind)
    ELSE LET ds == CoreGroup(snap_group, i_core).NextProgenitorIndices
             core_nvals == Len(ds)
         IN  IF core_nvals > 0
             THEN IF counter + core_nvals > Len(np_ind)
                  THEN Raise("TypeError")
                  ELSE np_loop(snap_group, n_cores, i_core + 1,
                               counter + core_nvals,
                               add_offset(read_direct(ds, np_ind, counter), counter,
                                          core_nvals, counter))
             ELSE np_loop(snap_group, n_cores, i_core + 1, counter, np_ind)

\* the group of the previous snapshot opened as well
read_nextprogenitor_indices_prev(c, snapshot_) ==
    IF snapshot_ \notin c.Snaps \/ (snapshot_ - 1) \notin c.Snaps
    THEN Raise("KeyError")
    ELSE LET n_cores == c.NCores
             snap_group == c.Snap[snapshot_]
             n_gals == snap_group.NGalaxies
         IN  np_loop(snap_group, n_cores, 0, 0, zeros(n_gals))

\* io.py 604-657 (pandas=False)
read_nextprogenitor_indices(c, snapshot_) ==
    IF snapshot_ \notin c.Snaps
    THEN Raise("KeyError")
    ELSE LET n_cores == c.NCores
             snap_group == c.Snap[snapshot_]
             n_gals == snap_group.NGalaxies
         IN  np_loop(snap_group, n_cores, 0, 0, zeros(n_gals))

\* the raw values copied, no offset added
RECURSIVE desc_loop_unshifted(_, _, _, _, _, _)
desc_loop_unshifted(snap_group, prev_core_counter, n_cores, i_core, counter, desc_ind) ==
    IF i_core >= n_cores THEN Ok(desc_ind)
    ELSE LET ds == CoreGroup(snap_group, i_core).DescendantIndices
             core_nvals == Len(ds)
         IN  IF core_nvals > 0
             THEN IF counter + core_nvals > Len(desc_ind)
                  THEN Raise("TypeError")
                  ELSE desc_loop_unshifted(snap_group, prev_core_counter, n_cores,
                                           i_core + 1, counter + core_nvals,
                                           read_direct(ds, desc_ind, counter))
             ELSE desc_loop_unshifted(snap_group, prev_core_counter, n_cores,
                                      i_core + 1, counter, desc_ind)

\* io.py 712-721: the loop over the cores of read_descendant_indices
RECURSIVE desc_loop(_, _, _, _, _, _)
desc_loop(snap_group, prev_core_counter, n_cores, i_core, counter, desc_ind) ==
    IF i_core >= n_cores THEN Ok(desc_ind)
    ELSE LET ds == CoreGroup(snap_group, i_core).DescendantIndices
             core_nvals == Len(ds)
         IN  IF core_nvals > 0
             THEN IF counter + core_nvals > Len(desc_ind)
                  THEN Raise("TypeError")
                  ELSE desc_loop(snap_group, prev_core_counter, n_cores, i_core + 1,
                                 counter + core_nvals,
                                 add_offset(read_direct(ds, desc_ind, counter), counter,
                                            core_nvals, prev_core_counter[i_core + 1]))
             ELSE desc_loop(snap_group, prev_core_counter, n_cores, i_core + 1,
                            counter, desc_ind)

\* the offsets taken from the snapshot's own partitions, no next group opened
read_descendant_indices_own(c, snapshot_) ==
    IF snapshot_ \notin c.Snaps
    THEN Raise("KeyError")
    ELSE LET n_cores == c.NCores
             snap_group == c.Snap[snapshot_]
             n_gals == snap_group.NGalaxies
         IN  desc_loop(snap_group, core_offsets(snap_group, n_cores),
                       n_cores, 0, 0, zeros(n_gals))

\* io.py 660-726 (pandas=False)
read_descendant_indices(c, snapshot_) ==
    IF snapshot_ \notin c.Snaps \/ (snapshot_ + 1) \notin c.Snaps
    THEN Raise("KeyError")
    ELSE LET n_cores == c.NCores
             snap_group == c.Snap[snapshot_]
             next_snap_group == c.Snap[snapshot_ + 1]
             n_gals == snap_group.NGalaxies
         IN  desc_loop(snap_group, core_offsets(next_snap_group, n_cores),
                       n_cores, 0, 0, zeros(n_gals))

----------------------------------------------------------------------------
(* Record fetch: io.py read_gals (props=None, pandas=False, h=None).       *)

\* io.py 18: little h is None or a value, counted in halves (0.5 is 1 half,
\* 1.0 is 2 halves)
NoH == [set |-> FALSE, halves |-> 2]
H(n) == [set |-> TRUE, halves |-> n]

\* io.py 76-93: the value set_little_h(h) stores in the module
set_little_h(h) == IF h = 2 THEN NoH ELSE H(h)

\* the module-level value ignored
little_h_local(h, module_h) == h

\* io.py 145-146: the little h in force in a call of read_gals
little_h(h, module_h) == IF ~h.set /\ module_h.set THEN module_h ELSE h

\* io.py 238-248 with the table of lines 20-56: ID and CentralGal are kept,
\* Mvir is divided by h
h_scaled(G, h) ==
    IF ~h.set THEN G
    ELSE [k \in 1..Len(G) |-> [G[k] EXCEPT !.Mvir = (2 * @) \div h.halves]]

\* the keyword argument indices: None (the default) or a list of indices
None == [given |-> FALSE, list |-> <<>>]
List(l) == [given |-> TRUE, list |-> l]

\* np.empty: a slot that no read has filled holds unspecified content
Unfilled == [ID |-> -1, CentralGal |-> -1, Mvir |-> -1]

\* the strictly increasing sequence of the members of a set of integers
RECURSIVE Ascending(_)
Ascending(S) ==
    IF S = {} THEN <<>>
    ELSE LET m == CHOOSE x \in S : \A y \in S : x <= y
         IN  <<m>> \o Ascending(S \ {m})

\* the offset given up, as when the records have no CentralGal field
apply_offsets_skipped(G, lo, n, counter) == G

\* io.py 148-153: G[dest_sel]['CentralGal'] += counter
apply_offsets(G, lo, n, counter) ==
    [k \in 1..Len(G) |->
        IF k > lo /\ k <= lo + n
        THEN [G[k] EXCEPT !.CentralGal = @ + counter] ELSE G[k]]

\* io.py 207-235: the loop over the cores of read_gals
RECURSIVE gals_loop(_, _, _, _, _, _, _, _)
gals_loop(snap_group, indices, n_cores, i_core, counter, total_read, ngals, G) ==
    IF i_core >= n_cores \/ counter >= ngals THEN Ok(G)
    ELSE
    LET galaxies == CoreGroup(snap_group, i_core).Galaxies
        core_ngals == Len(galaxies)
    IN  IF ~indices.given /\ core_ngals > 0
        THEN IF counter + core_ngals > Len(G)
             THEN Raise("TypeError")
             ELSE gals_loop(snap_group, indices, n_cores, i_core + 1,
                            counter + core_ngals, total_read, ngals,
                            apply_offsets(read_direct(galaxies, G, counter),
                                          counter, core_ngals, counter))
        ELSE IF ~indices.given
        \* np.compress of a scalar condition: "condition must be a 1-d array"
        THEN Raise("ValueError")
        ELSE
        LET read_ind == SelectSeq(indices.list, LAMBDA x :
                            x >= total_read /\ x < total_read + core_ngals)
            n_read == Len(read_ind)
            \* galaxies[bool_sel]: the marked rows, each once, in storage order
            rows == Ascending({read_ind[k] - total_read : k \in 1..n_read})
        IN  IF n_read > 0
            THEN IF Len(rows) # n_read /\ Len(rows) # 1
                 THEN Raise("ValueError")
                 ELSE gals_loop(snap_group, indices, n_cores, i_core + 1,
                                counter + n_read, total_read + core_ngals, ngals,
                                apply_offsets(
                                    [k \in 1..Len(G) |->
                                        IF k > counter /\ k <= counter + n_read
                                        THEN galaxies[rows[IF Len(rows) = 1 THEN 1
                                                           ELSE k - counter] + 1]
                                        ELSE G[k]],
                                    counter, n_read, total_read))
            ELSE gals_loop(snap_group, indices, n_cores, i_core + 1,
                           counter, total_read + core_ngals, ngals, G)

\* io.py 96-268
read_gals(c, snapshot_, indices) ==
    IF snapshot_ \notin c.Snaps THEN Raise("KeyError")
    ELSE
    LET snap_group == c.Snap[snapshot_]
        n_cores == c.NCores
    IN  IF snap_group.NGalaxies = 0 THEN Raise("IndexError")
        ELSE
        LET sorted == IF ~indices.given THEN None
                      ELSE List(SortSeq(indices.list, LAMBDA x, y : x < y))
            ngals == IF ~indices.given THEN snap_group.NGalaxies
                     ELSE Len(sorted.list)
            G == [k \in 1..ngals |-> Unfilled]
            h == little_h(NoH, meraxes_h)
            read == IF ngals > 0
                    THEN gals_loop(snap_group, sorted, n_cores, 0, 0, 0, ngals, G)
                    ELSE Ok(G)
        IN  IF read.err # "none" THEN read
            ELSE Ok(h_scaled(read.val, h))

----------------------------------------------------------------------------
(* The catalogs the walker is run on: snapshots 0..LastSnap, the last      *)
(* partition holds two galaxy lines whose links are fixed, from one        *)
(* snapshot to the next, by a transition; the other partitions hold        *)
(* galaxies without relations, one or two per snapshot, so that the        *)
(* offsets differ from one snapshot to the next.  Raw links are local to   *)
(* the partition, as the simulation writes them.                           *)

Snapshots == 0..LastSnap

\* the record of the galaxy stored at position p of partition i_core
Record(s, i_core, p) ==
    [ID |-> 100 * s + 10 * i_core + p + 1, CentralGal |-> 0,
     Mvir |-> 2 * (i_core + p + 1)]

\* np.zeros(1, dtype=gals.dtype)[0]
ZeroRecord == [ID |-> 0, CentralGal |-> 0, Mvir |-> 0]

\* desc: DescendantIndices of the two galaxies at snapshot s-1;
\* fp: FirstProgenitorIndices of the two galaxies at snapshot s
Transitions ==
    { [desc |-> << 0,  1>>, fp |-> << 0,  1>>],    \* both lines continue
      [desc |-> << 0,  0>>, fp |-> << 0, -1>>],    \* 1 merges into the line of 0,
                                                   \* a new galaxy forms as 1
      [desc |-> << 1, -1>>, fp |-> <<-1,  0>>] }   \* 0 continues as 1, 1 ends,
                                                   \* a new galaxy forms as 0

NoLinks(n) == [k \in 1..n |-> -1]

PadSize(s, i_core) == 1 + ((s + i_core) % 2)

WalkCore(s, i_core, tr) ==
    IF i_core < NCores - 1
    THEN LET n == PadSize(s, i_core)
         IN  [Galaxies |-> [p \in 1..n |-> Record(s, i_core, p - 1)],
              FirstProgenitorIndices |-> NoLinks(n),
              NextProgenitorIndices |-> NoLinks(n),
              DescendantIndices |-> NoLinks(n)]
    ELSE [Galaxies |-> [p \in 1..2 |-> Record(s, i_core, p - 1)],
          FirstProgenitorIndices |-> IF s = 0 THEN NoLinks(2) ELSE tr[s].fp,
          NextProgenitorIndices |-> NoLinks(2),
          DescendantIndices |-> IF s = LastSnap THEN NoLinks(2) ELSE tr[s + 1].desc]

RECURSIVE SumLen(_)
SumLen(cores) ==
    IF Len(cores) = 0 THEN 0
    ELSE Len(cores[1].Galaxies) + SumLen(Tail(cores))

WalkCatalog(tr) ==
    [NCores |-> NCores,
     Snaps |-> Snapshots,
     Snap |-> [s \in Snapshots |->
                 LET cores == [i \in 1..NCores |-> WalkCore(s, i - 1, tr)]
                 IN  [NGalaxies |-> SumLen(cores), Core |-> cores]]]

\* cat is one of the catalogs the walker is run on
IsWalkCatalog ==
    \E tr \in [1..LastSnap -> Transitions] : cat = WalkCatalog(tr)

----------------------------------------------------------------------------
(* History Walker: galaxy_history.py galaxy_history (props=None,           *)
(* pandas=False).  Frame is the frame of the running call; log records     *)
(* the call, every read of the catalog and every write of a history slot.  *)

NoResult == [tag |-> "none", exc |-> "none", history |-> <<>>, merged_snapshot |-> -1]

Frame ==
    [pc |-> pc, gal_id |-> gal_id, snapshot |-> snapshot,
     future_snapshot |-> future_snapshot, start_ind |-> start_ind,
     merged_snapshot |-> merged_snapshot, history |-> history, ind |-> ind,
     last_ind |-> last_ind, snap |-> snap, result |-> result, log |-> log]

Become(f) ==
    /\ pc' = f.pc
    /\ gal_id' = f.gal_id
    /\ snapshot' = f.snapshot
    /\ future_snapshot' = f.future_snapshot
    /\ start_ind' = f.start_ind
    /\ merged_snapshot' = f.merged_snapshot
    /\ history' = f.history
    /\ ind' = f.ind
    /\ last_ind' = f.last_ind
    /\ snap' = f.snap
    /\ result' = f.result
    /\ log' = f.log

\* the exception caught and the history filled so far returned
Raised_partial(f, e) ==
    [f EXCEPT !.pc = "returned",
              !.result = [NoResult EXCEPT !.tag = "history", !.history = f.history]]

\* an exception leaves the call
Raised(f, e) ==
    [f EXCEPT !.pc = "raised",
              !.result = [NoResult EXCEPT !.tag = "raise", !.exc = e]]

\* the record stored one slot early: history[s - 1] = rec
SetSlot_previous(f, s, rec) ==
    [f EXCEPT !.history[IF s = 0 THEN Len(f.history) ELSE s] = rec,
              !.log = Append(@, <<"hist", s>>)]

\* history[s] = rec
SetSlot(f, s, rec) ==
    [f EXCEPT !.history[s + 1] = rec, !.log = Append(@, <<"hist", s>>)]

Logged(f, what, s) == [f EXCEPT !.log = Append(@, <<what, s>>)]

\* the forward loop entered with the index the backward loop ended on
EnterForward_resume(f) ==
    IF f.future_snapshot # f.snapshot
    THEN [f EXCEPT !.snap = f.snapshot + 1,
                   !.pc = IF f.snapshot + 1 < f.future_snapshot + 1
                          THEN "forward" ELSE "return"]
    ELSE [f EXCEPT !.pc = "return"]

\* galaxy_history.py 113-115: the backward loop is left
EnterForward(f) ==
    IF f.future_snapshot # f.snapshot
    THEN [f EXCEPT !.ind = f.start_ind,
                   !.snap = f.snapshot + 1,
                   !.pc = IF f.snapshot + 1 < f.future_snapshot + 1
                          THEN "forward" ELSE "return"]
    ELSE [f EXCEPT !.pc = "return"]

\* a future_snapshot before snapshot taken as no future
future_default_clamped(s, fut) == IF fut < s THEN s ELSE fut

\* galaxy_history.py 96-97: the default of future_snapshot
future_default(s, fut) == IF fut = -1 THEN s ELSE fut

\* np.argmax(gals["ID"] == gal_id): index 0 when no galaxy matches
first_where_argmax(gals, g) ==
    LET where == {k \in 1..Len(gals) : gals[k].ID = g}
    IN  IF where = {} THEN Ok(0)
        ELSE Ok((CHOOSE k \in where : \A j \in where : k <= j) - 1)

\* galaxy_history.py 93: np.where(gals["ID"] == gal_id)[0][0]
first_where(gals, g) ==
    LET where == {k \in 1..Len(gals) : gals[k].ID = g}
    IN  IF where = {} THEN Raise("IndexError")
        ELSE Ok((CHOOSE k \in where : \A j \in where : k <= j) - 1)

\* galaxy_history.py 90-106: from the call to the head of the backward loop
Enter(c, g, s, fut) ==
    LET f0 == [Frame EXCEPT !.gal_id = g, !.snapshot = s, !.future_snapshot = fut,
                            !.start_ind = 0, !.merged_snapshot = -1,
                            !.history = <<>>, !.ind = 0, !.last_ind = 0,
                            !.snap = 0, !.result = NoResult,
                            !.log = << <<"call", g, s, fut>> >>]
        gals == read_gals(c, s, None)
        f1 == Logged(f0, "gals", s)
    IN  IF gals.err # "none" THEN Raised(f1, gals.err)
        ELSE
        LET where == first_where(gals.val, g)
        IN  IF where.err # "none" THEN Raised(f1, where.err)
            ELSE
            LET si == where.val
                fs == future_default(s, fut)
                f2 == [f1 EXCEPT !.start_ind = si, !.merged_snapshot = -1,
                                 !.future_snapshot = fs,
                                 !.history = [k \in 1..(fs + 1) |-> ZeroRecord]]
            IN  IF s >= fs + 1 THEN Raised(f2, "IndexError")
                ELSE
                LET f3 == SetSlot(f2, s, gals.val[si + 1])
                    fp_ind == read_firstprogenitor_indices(c, s)
                    f4 == Logged(f3, "fp", s)
                IN  IF fp_ind.err # "none" THEN Raised(f4, fp_ind.err)
                    ELSE
                    LET i == PyIndex(fp_ind.val, si)
                    IN  IF i.err # "none" THEN Raised(f4, i.err)
                        ELSE
                        LET f5 == [f4 EXCEPT !.ind = i.val]
                        IN  IF i.val = -1 THEN Raised(f5, "Warning")
                            ELSE IF s - 1 > -1
                            THEN [f5 EXCEPT !.pc = "backward", !.snap = s - 1]
                            ELSE EnterForward(f5)

\* galaxy_history.py 106-111: one pass of the backward loop
Backward(c, f) ==
    LET G == read_gals(c, f.snap, List(<<f.ind>>))
        f1 == Logged(f, "gals", f.snap)
    IN  IF G.err # "none" THEN Raised(f1, G.err)
        ELSE
        LET f2 == SetSlot(f1, f.snap, G.val[1])
            fp_ind == read_firstprogenitor_indices(c, f.snap)
            f3 == Logged(f2, "fp", f.snap)
        IN  IF fp_ind.err # "none" THEN Raised(f3, fp_ind.err)
            ELSE
            LET i == PyIndex(fp_ind.val, f.ind)
            IN  IF i.err # "none" THEN Raised(f3, i.err)
                ELSE
                LET f4 == [f3 EXCEPT !.ind = i.val]
                IN  IF i.val = -1 THEN EnterForward(f4)
                    ELSE IF f.snap - 1 > -1
                    THEN [f4 EXCEPT !.snap = f.snap - 1]
                    ELSE EnterForward(f4)

\* the link compared with the index reached, not the index arrived from
MergeCheck_current(f, fp, last) ==
    IF fp # f.ind /\ f.merged_snapshot = -1
    THEN [f EXCEPT !.merged_snapshot = f.snap]
    ELSE f

\* the marker follows the last comparison
MergeCheck_rearmed(f, fp, last) ==
    IF fp # last
    THEN [f EXCEPT !.merged_snapshot = f.snap]
    ELSE [f EXCEPT !.merged_snapshot = -1]

\* the marker set to the snapshot after the one checked
MergeCheck_next(f, fp, last) ==
    IF fp # last /\ f.merged_snapshot = -1
    THEN [f EXCEPT !.merged_snapshot = f.snap + 1]
    ELSE f

\* galaxy_history.py 121-124: the merger check
MergeCheck(f, fp, last) ==
    IF fp # last /\ f.merged_snapshot = -1
    THEN [f EXCEPT !.merged_snapshot = f.snap]
    ELSE f

\* nothing recorded once a merger was found
Record_and_advance_unmerged(c, f) ==
    LET G == read_gals(c, f.snap, List(<<f.ind>>))
        f1 == Logged(f, "gals", f.snap)
    IN  IF G.err # "none" THEN Raised(f1, G.err)
        ELSE LET f2 == IF f.merged_snapshot # -1 THEN f1
                       ELSE SetSlot(f1, f.snap, G.val[1])
             IN  IF f.snap + 1 < f.future_snapshot + 1
                 THEN [f2 EXCEPT !.snap = f.snap + 1]
                 ELSE [f2 EXCEPT !.pc = "return"]

\* the loop variable not advanced
Record_and_advance_stuck(c, f) ==
    LET G == read_gals(c, f.snap, List(<<f.ind>>))
        f1 == Logged(f, "gals", f.snap)
    IN  IF G.err # "none" THEN Raised(f1, G.err)
        ELSE SetSlot(f1, f.snap, G.val[1])

\* galaxy_history.py 126-127 and the head of the loop
Record_and_advance(c, f) ==
    LET G == read_gals(c, f.snap, List(<<f.ind>>))
        f1 == Logged(f, "gals", f.snap)
    IN  IF G.err # "none" THEN Raised(f1, G.err)
        ELSE LET f2 == SetSlot(f1, f.snap, G.val[1])
             IN  IF f.snap + 1 < f.future_snapshot + 1
                 THEN [f2 EXCEPT !.snap = f.snap + 1]
                 ELSE [f2 EXCEPT !.pc = "return"]

\* continue instead of break when the Descendant link is -1
Forward_continue(c, f) ==
    LET last == f.ind
        desc_ind == read_descendant_indices(c, f.snap - 1)
        f1 == Logged([f EXCEPT !.last_ind = last], "desc", f.snap - 1)
    IN  IF desc_ind.err # "none" THEN Raised(f1, desc_ind.err)
        ELSE
        LET i == PyIndex(desc_ind.val, f.ind)
        IN  IF i.err # "none" THEN Raised(f1, i.err)
            ELSE
            LET f2 == [f1 EXCEPT !.ind = i.val]
            IN  IF i.val = -1
                THEN IF f.snap + 1 < f.future_snapshot + 1
                     THEN [f2 EXCEPT !.snap = f.snap + 1]
                     ELSE [f2 EXCEPT !.pc = "return"]
                ELSE IF f.snap < f.future_snapshot
                THEN LET fp_ind == read_firstprogenitor_indices(c, f.snap)
                         f3 == Logged(f2, "fp", f.snap)
                     IN  IF fp_ind.err # "none" THEN Raised(f3, fp_ind.err)
                         ELSE LET fp == PyIndex(fp_ind.val, i.val)
                              IN  IF fp.err # "none" THEN Raised(f3, fp.err)
                                  ELSE Record_and_advance(c, MergeCheck(f3, fp.val, last))
                ELSE Record_and_advance(c, f2)

\* galaxy_history.py 115-127: one pass of the forward loop
Forward(c, f) ==
    LET last == f.ind
        desc_ind == read_descendant_indices(c, f.snap - 1)
        f1 == Logged([f EXCEPT !.last_ind = last], "desc", f.snap - 1)
    IN  IF desc_ind.err # "none" THEN Raised(f1, desc_ind.err)
        ELSE
        LET i == PyIndex(desc_ind.val, f.ind)
        IN  IF i.err # "none" THEN Raised(f1, i.err)
            ELSE
            LET f2 == [f1 EXCEPT !.ind = i.val]
            IN  IF i.val = -1 THEN [f2 EXCEPT !.pc = "return"]
                ELSE IF f.snap < f.future_snapshot
                THEN LET fp_ind == read_firstprogenitor_indices(c, f.snap)
                         f3 == Logged(f2, "fp", f.snap)
                     IN  IF fp_ind.err # "none" THEN Raised(f3, fp_ind.err)
                         ELSE LET fp == PyIndex(fp_ind.val, i.val)
                              IN  IF fp.err # "none" THEN Raised(f3, fp.err)
                                  ELSE Record_and_advance(c, MergeCheck(f3, fp.val, last))
                ELSE Record_and_advance(c, f2)

\* the pair returned whatever future_snapshot is
Return_pair(f) ==
    [f EXCEPT !.pc = "returned",
              !.result = [NoResult EXCEPT !.tag = "pair",
                                          !.history = f.history,
                                          !.merged_snapshot = f.merged_snapshot]]

\* galaxy_history.py 132-135
Return(f) ==
    [f EXCEPT !.pc = "returned",
              !.result = IF f.future_snapshot = f.snapshot
                         THEN [NoResult EXCEPT !.tag = "history",
                                               !.history = f.history]
                         ELSE [NoResult EXCEPT !.tag = "pair",
                                               !.history = f.history,
                                               !.merged_snapshot = f.merged_snapshot]]

----------------------------------------------------------------------------
(* The walker as a state machine.                                          *)

\* the IDs stored at snapshot s; a call asks for one of them or for 0, which
\* no galaxy has
IdsAt(c, s) ==
    UNION { { c.Snap[s].Core[i].Galaxies[p].ID :
              p \in 1..Len(c.Snap[s].Core[i].Galaxies) } : i \in 1..c.NCores }

Init ==
    /\ IsWalkCatalog
    /\ pc = "idle"
    /\ gal_id = 0
    /\ snapshot = 0
    /\ future_snapshot = 0
    /\ start_ind = 0
    /\ merged_snapshot = -1
    /\ history = <<>>
    /\ ind = 0
    /\ last_ind = 0
    /\ snap = 0
    /\ result = NoResult
    /\ log = <<>>
    /\ kind = "none"
    /\ out = Ok(<<>>)
    /\ meraxes_h = NoH

\* the values of little h passed to set_little_h, in halves
LittleHs == {1, 2}

\* set_little_h(h) is called before galaxy_history
SetLittleH ==
    /\ pc = "idle"
    /\ \E h \in LittleHs : meraxes_h' = set_little_h(h)
    /\ UNCHANGED <<cat, pc, gal_id, snapshot, future_snapshot, start_ind,
                   merged_snapshot, history, ind, last_ind, snap, result, log,
                   kind, out>>

\* galaxy_history(fname, gal_id, snapshot, future_snapshot) is called
Call ==
    /\ pc = "idle"
    /\ \E s \in Snapshots :
       \E g \in IdsAt(cat, s) \cup {0} :
       \E fut \in {-1, 0} \cup (s - 1)..(LastSnap + 1) :
          Become(Enter(cat, g, s, fut))
    /\ UNCHANGED <<cat, kind, out, meraxes_h>>

BackwardStep ==
    /\ pc = "backward"
    /\ Become(Backward(cat, Frame))
    /\ UNCHANGED <<cat, kind, out, meraxes_h>>

ForwardStep ==
    /\ pc = "forward"
    /\ Become(Forward(cat, Frame))
    /\ UNCHANGED <<cat, kind, out, meraxes_h>>

ReturnStep ==
    /\ pc = "return"
    /\ Become(Return(Frame))
    /\ UNCHANGED <<cat, kind, out, meraxes_h>>

Next == SetLittleH \/ Call \/ BackwardStep \/ ForwardStep \/ ReturnStep

Spec == Init /\ [][Next]_vars

----------------------------------------------------------------------------
(* The catalogs the stitcher is run on: snapshots 0, 1, 2.  Snapshot 1     *)
(* holds the link arrays that are stitched: in one partition the three     *)
(* link datasets hold raw values drawn from RawVals (the same in the       *)
(* three), up to MaxCoreGals of them; the other partitions hold galaxies   *)
(* without relations, their number fixed by the partition and by the       *)
(* number of links drawn.  The attribute NGalaxies of snapshot 1 is the    *)
(* number of galaxies stored, or one less, or one more.  Snapshots 0 and 2 *)
(* are the destinations: their partitions 0..NCores-2 (the ones the        *)
(* offsets are computed from) hold up to MaxCoreGals galaxies, without     *)
(* relations, never as many in snapshot 2 as in snapshot 0.                *)

RawVals == {-2, -1, 0, 1}

DestLayouts == [1..(NCores - 1) -> 0..MaxCoreGals]

\* declared NGalaxies minus the number of galaxies stored
Deltas == {-1, 0, 1}

OtherSize(n) == (n + 1) % (MaxCoreGals + 1)

\* the number of galaxies of partition i (1-based) of snapshot 1 when another
\* partition holds the n links drawn
SiblingSize(n, i) == (n + i) % (MaxCoreGals + 1)

StitchCore(s, i_core, links) ==
    [Galaxies |-> [p \in 1..Len(links) |-> Record(s, i_core, p - 1)],
     FirstProgenitorIndices |-> links,
     NextProgenitorIndices |-> links,
     DescendantIndices |-> links]

StitchGroup(s, links, delta) ==
    LET cores == [i \in 1..NCores |-> StitchCore(s, i - 1, links[i])]
    IN  [NGalaxies |-> SumLen(cores) + delta, Core |-> cores]

DestLinks(s, layout) ==
    [i \in 1..NCores |->
        NoLinks(IF i = NCores THEN 1
                ELSE IF s = 0 THEN layout[i] ELSE OtherSize(layout[i]))]

StitchCatalog(d, j, r, delta) ==
    [NCores |-> NCores,
     Snaps |-> 0..2,
     Snap |-> [s \in 0..2 |->
                 IF s = 1
                 THEN StitchGroup(s, [i \in 1..NCores |->
                                        IF i = j THEN r
                                        ELSE NoLinks(SiblingSize(Len(r), i))],
                                  delta)
                 ELSE StitchGroup(s, DestLinks(s, d), 0)]]

\* cat is one of the catalogs the stitcher is run on
IsStitchCatalog ==
    \E d \in DestLayouts, j \in 1..NCores, n \in 0..MaxCoreGals, delta \in Deltas :
        \E r \in [1..n -> RawVals] :
            /\ cat = StitchCatalog(d, j, r, delta)
            /\ cat.Snap[1].NGalaxies >= 0

InitStitch ==
    /\ IsStitchCatalog
    /\ pc = "idle"
    /\ gal_id = 0
    /\ snapshot = 0
    /\ future_snapshot = 0
    /\ start_ind = 0
    /\ merged_snapshot = -1
    /\ history = <<>>
    /\ ind = 0
    /\ last_ind = 0
    /\ snap = 0
    /\ result = NoResult
    /\ log = <<>>
    /\ kind = "none"
    /\ out = Ok(<<>>)
    /\ meraxes_h = NoH

\* the sum of the Galaxies sizes of partitions 0..i_core-1 of group
RECURSIVE GalaxiesBefore(_, _)
GalaxiesBefore(group, i_core) ==
    IF i_core = 0 THEN 0
    ELSE GalaxiesBefore(group, i_core - 1)
         + Len(group.Core[i_core].Galaxies)

\* the raw link dataset of a kind in partition i_core of group
RawLinks(group, i_core, k) ==
    IF k = "FirstProgenitor" THEN group.Core[i_core + 1].FirstProgenitorIndices
    ELSE IF k = "NextProgenitor" THEN group.Core[i_core + 1].NextProgenitorIndices
    ELSE group.Core[i_core + 1].DescendantIndices

\* the sum of the link-array sizes of partitions 0..i_core-1 of group
RECURSIVE LinksBefore(_, _, _)
LinksBefore(group, i_core, k) ==
    IF i_core = 0 THEN 0
    ELSE LinksBefore(group, i_core - 1, k) + Len(RawLinks(group, i_core - 1, k))

\* the calls made in a run: any first call, then the same call again
MayCall(k, s) ==
    /\ Len(log) < MaxCalls
    /\ kind = "none" \/ (kind = k /\ snapshot = s)

\* the file opened for writing and the stitched values stored in its datasets
ReadFirstProgenitor_writeback ==
    /\ \E s \in cat.Snaps :
          /\ MayCall("FirstProgenitor", s)
          /\ kind' = "FirstProgenitor"
          /\ snapshot' = s
          /\ out' = read_firstprogenitor_indices(cat, s)
          /\ log' = Append(log, <<"FirstProgenitor", s, out'>>)
          /\ cat' = IF out'.err # "none" THEN cat
                    ELSE [cat EXCEPT !.Snap[s].Core =
                            [i \in 1..cat.NCores |->
                               [@[i] EXCEPT !.FirstProgenitorIndices =
                                  SubSeq(out'.val,
                                         LinksBefore(cat.Snap[s], i - 1, "FirstProgenitor") + 1,
                                         LinksBefore(cat.Snap[s], i, "FirstProgenitor"))]]]
    /\ UNCHANGED <<pc, gal_id, future_snapshot, start_ind, merged_snapshot,
                   history, ind, last_ind, snap, result, meraxes_h>>

\* read_firstprogenitor_indices(fname, s) is called
ReadFirstProgenitor ==
    /\ \E s \in cat.Snaps :
          /\ MayCall("FirstProgenitor", s)
          /\ kind' = "FirstProgenitor"
          /\ snapshot' = s
          /\ out' = read_firstprogenitor_indices(cat, s)
          /\ log' = Append(log, <<"FirstProgenitor", s, out'>>)
    /\ UNCHANGED <<cat, pc, gal_id, future_snapshot, start_ind, merged_snapshot,
                   history, ind, last_ind, snap, result, meraxes_h>>

\* read_nextprogenitor_indices(fname, s) is called
ReadNextProgenitor ==
    /\ \E s \in cat.Snaps :
          /\ MayCall("NextProgenitor", s)
          /\ kind' = "NextProgenitor"
          /\ snapshot' = s
          /\ out' = read_nextprogenitor_indices(cat, s)
          /\ log' = Append(log, <<"NextProgenitor", s, out'>>)
    /\ UNCHANGED <<cat, pc, gal_id, future_snapshot, start_ind, merged_snapshot,
                   history, ind, last_ind, snap, result, meraxes_h>>

\* read_descendant_indices(fname, s) is called
ReadDescendant ==
    /\ \E s \in cat.Snaps :
          /\ MayCall("Descendant", s)
          /\ kind' = "Descendant"
          /\ snapshot' = s
          /\ out' = read_descendant_indices(cat, s)
          /\ log' = Append(log, <<"Descendant", s, out'>>)
    /\ UNCHANGED <<cat, pc, gal_id, future_snapshot, start_ind, merged_snapshot,
                   history, ind, last_ind, snap, result, meraxes_h>>

NextStitch == ReadFirstProgenitor \/ ReadNextProgenitor \/ ReadDescendant

SpecStitch == InitStitch /\ [][NextStitch]_vars

----------------------------------------------------------------------------
(* Properties of the stitcher, checked under SpecStitch.                   *)

Returned == kind # "none" /\ out.err = "none"

\* the snapshot the links of a kind read at snapshot s point into
Destination(k, s) ==
    IF k = "FirstProgenitor" THEN s - 1
    ELSE IF k = "Descendant" THEN s + 1 ELSE s

\* C1: whenever read_firstprogenitor_indices(s) or read_descendant_indices(s)
\* returns, every raw value r >= 0 at local position p of partition i is
\* returned as r + (sum of the Galaxies sizes of partitions 0..i-1 of
\* snapshot s-1, resp. s+1), at global position (sum of the link-array sizes
\* of partitions 0..i-1 of snapshot s) + p.
C1_OffsetCorrectness ==
    (Returned /\ kind \in {"FirstProgenitor", "Descendant"}) =>
        \A i \in 0..(cat.NCores - 1) :
            LET raw == RawLinks(cat.Snap[snapshot], i, kind)
                at == LinksBefore(cat.Snap[snapshot], i, kind)
                off == GalaxiesBefore(cat.Snap[Destination(kind, snapshot)], i)
            IN  \A p \in 1..Len(raw) :
                    raw[p] >= 0 => out.val[at + p] = raw[p] + off

\* a Descendant stitch has returned a value r >= 1 of a partition whose
\* offset into snapshot s+1 is not 0 and differs from both its offset into
\* snapshot s-1 and its write position
C1_Witness ==
    /\ Returned /\ kind = "Descendant" /\ snapshot = 1
    /\ \E i \in 1..(cat.NCores - 1) :
         LET raw == RawLinks(cat.Snap[1], i, kind)
             at == LinksBefore(cat.Snap[1], i, kind)
             off == GalaxiesBefore(cat.Snap[2], i)
         IN  /\ off > 0 /\ off # at /\ off # GalaxiesBefore(cat.Snap[0], i)
             /\ \E p \in 1..Len(raw) : raw[p] >= 1 /\ out.val[at + p] = raw[p] + off

\* C2: for the three link kinds, a raw element equal to -1 is returned as -1
\* at its global position, whatever the offset of its partition.
C2_SentinelPreserved ==
    Returned =>
        \A i \in 0..(cat.NCores - 1) :
            LET raw == RawLinks(cat.Snap[snapshot], i, kind)
                at == LinksBefore(cat.Snap[snapshot], i, kind)
            IN  \A p \in 1..Len(raw) : raw[p] = -1 => out.val[at + p] = -1

\* a FirstProgenitor stitch has returned -1 for a sentinel of a partition
\* with a non-zero offset, next to a value of that partition that was offset
C2_Witness ==
    /\ Returned /\ kind = "FirstProgenitor"
    /\ \E i \in 1..(cat.NCores - 1) :
         LET raw == RawLinks(cat.Snap[snapshot], i, kind)
             at == LinksBefore(cat.Snap[snapshot], i, kind)
             off == GalaxiesBefore(cat.Snap[snapshot - 1], i)
         IN  /\ off > 0
             /\ \E p, q \in 1..Len(raw) :
                   /\ raw[p] = -1 /\ out.val[at + p] = -1
                   /\ raw[q] = 0 /\ out.val[at + q] = off

----------------------------------------------------------------------------
(* The unpartitioned reference: links and records by global index.         *)

\* the partition that holds global index g of group
CoreOf(group, g) ==
    CHOOSE i \in 0..(Len(group.Core) - 1) :
        GalaxiesBefore(group, i) <= g /\ g < GalaxiesBefore(group, i + 1)

\* the link of kind k of the galaxy at global index g of snapshot s, as a
\* global index of the destination snapshot
TrueLink(c, s, g, k) ==
    LET i == CoreOf(c.Snap[s], g)
        raw == RawLinks(c.Snap[s], i, k)[g - GalaxiesBefore(c.Snap[s], i) + 1]
    IN  IF raw = -1 THEN -1
        ELSE raw + GalaxiesBefore(c.Snap[Destination(k, s)], i)

\* the record of the galaxy at global index g of snapshot s
TrueRecord(c, s, g) ==
    LET i == CoreOf(c.Snap[s], g)
    IN  [c.Snap[s].Core[i + 1].Galaxies[g - GalaxiesBefore(c.Snap[s], i) + 1]
            EXCEPT !.CentralGal = @ + GalaxiesBefore(c.Snap[s], i),
                   !.Mvir = IF meraxes_h.set THEN (2 * @) \div meraxes_h.halves
                            ELSE @]

\* the galaxy at snapshot s <= s0 on the first-progenitor chain of galaxy i0
\* of snapshot s0 (-1: the chain does not reach s)
RECURSIVE BackInd(_, _, _, _)
BackInd(c, s0, i0, s) ==
    IF s = s0 THEN i0
    ELSE LET later == BackInd(c, s0, i0, s + 1)
         IN  IF later = -1 THEN -1
             ELSE TrueLink(c, s + 1, later, "FirstProgenitor")

\* the galaxy at snapshot s >= s0 on the descendant chain of galaxy i0 of
\* snapshot s0 (-1: the chain does not reach s)
RECURSIVE FwdInd(_, _, _, _)
FwdInd(c, s0, i0, s) ==
    IF s = s0 THEN i0
    ELSE LET earlier == FwdInd(c, s0, i0, s - 1)
         IN  IF earlier = -1 THEN -1
             ELSE TrueLink(c, s - 1, earlier, "Descendant")

\* the snapshots 1..s0 at which the chain of i0 has FirstProgenitor link -1
FormationSnaps(c, s0, i0) ==
    { s \in 1..s0 : /\ BackInd(c, s0, i0, s) # -1
                    /\ TrueLink(c, s, BackInd(c, s0, i0, s), "FirstProgenitor") = -1 }

FormationSnap(c, s0, i0) ==
    CHOOSE s \in FormationSnaps(c, s0, i0) : TRUE

\* the chain of i0 has no -1 link at any snapshot 1..s0
ReachesZero(c, s0, i0) == FormationSnaps(c, s0, i0) = {}

Populated(s) == history[s + 1] # ZeroRecord

\* the call found its galaxy and future_snapshot >= snapshot
Found == pc # "idle" /\ gal_id \in IdsAt(cat, snapshot) /\ future_snapshot >= snapshot

HasRead(what) == \E k \in 1..Len(log) : log[k][1] = what

\* the call was left by an exception before the forward phase
RaisedBeforeForward == pc = "raised" /\ ~HasRead("desc")

BackwardOver == pc \in {"forward", "return", "returned", "raised"}

----------------------------------------------------------------------------
(* Properties of the walker, checked under Spec.                           *)

\* C3: for every galaxy with start index i at start_snapshot and formation
\* snapshot f, the backward phase stops at f and exactly the slots
\* f..start_snapshot are populated by it, each with the record of the galaxy
\* on the first-progenitor chain at that snapshot.
C3_BackwardChain ==
    (Found /\ BackwardOver /\ FormationSnaps(cat, snapshot, start_ind) # {}) =>
        LET f == FormationSnap(cat, snapshot, start_ind)
        IN  /\ ~RaisedBeforeForward
            /\ \A t \in 0..snapshot :
                  /\ Populated(t) <=> t >= f
                  /\ t >= f => history[t + 1] =
                        TrueRecord(cat, t, BackInd(cat, snapshot, start_ind, t))

\* C4: when the FirstProgenitor link of the starting galaxy is -1, the call
\* does not abort and returns a history in which only the start_snapshot
\* slot is populated.
C4_NoProgenitor ==
    (Found /\ snapshot >= 1 /\ pc \in {"returned", "raised"}
        /\ TrueLink(cat, snapshot, start_ind, "FirstProgenitor") = -1) =>
        /\ ~RaisedBeforeForward
        /\ \A t \in 0..snapshot : Populated(t) <=> t = snapshot

\* C5: for a galaxy whose first-progenitor chain has no -1 link at any
\* snapshot 1..start_snapshot the call completes the backward phase without
\* error and populates every slot 0..start_snapshot; so does a call with
\* start_snapshot = 0.
C5_DownToZero ==
    (Found /\ BackwardOver /\ ReachesZero(cat, snapshot, start_ind)) =>
        /\ ~RaisedBeforeForward
        /\ \A t \in 0..snapshot : Populated(t)

\* C6: galaxy A of snapshot 0 has descendant B at snapshot 1, B has
\* descendant C at snapshot 2 and the FirstProgenitor link of C does not
\* point to B: galaxy_history(0, A, future_snapshot=2) returns
\* merged_snapshot = 1 and slot 2 holds the record of C.
C6_MergeScenario ==
    LET B == FwdInd(cat, 0, start_ind, 1)
        C == FwdInd(cat, 0, start_ind, 2)
    IN  (Found /\ snapshot = 0 /\ future_snapshot = 2
            /\ pc \in {"returned", "raised"}
            /\ B # -1 /\ C # -1
            /\ TrueLink(cat, 2, C, "FirstProgenitor") # B) =>
            /\ pc = "returned"
            /\ result.merged_snapshot = 1
            /\ result.history[3] = TrueRecord(cat, 2, C)

\* the snapshots at which the merger rule of C7 is met
MergeSnaps(c, s0, i0, fut) ==
    { s \in (s0 + 1)..(fut - 1) :
        /\ FwdInd(c, s0, i0, s) # -1
        /\ TrueLink(c, s, FwdInd(c, s0, i0, s), "FirstProgenitor")
               # FwdInd(c, s0, i0, s - 1) }

C8_StickyMarker ==
    [][(pc # "idle" /\ merged_snapshot # -1) => merged_snapshot' = merged_snapshot]_vars

\* a call has returned a merger after which, at a later snapshot before
\* future_snapshot, the FirstProgenitor link of the descendant was again the
\* index the walker arrived from
C8_Witness ==
    /\ pc = "returned" /\ result.tag = "pair"
    /\ result.merged_snapshot # -1
    /\ \E t \in (result.merged_snapshot + 1)..(future_snapshot - 1) :
          /\ \E k \in 1..Len(log) : log[k] = <<"fp", t>>
          /\ FwdInd(cat, snapshot, start_ind, t) # -1
          /\ TrueLink(cat, t, FwdInd(cat, snapshot, start_ind, t), "FirstProgenitor")
                = FwdInd(cat, snapshot, start_ind, t - 1)

\* C9: if the call returns merged_snapshot = -1 with future_snapshot >
\* start_snapshot, the descendant chain is unbroken up to future_snapshot,
\* every slot start_snapshot+1..future_snapshot is populated, and at every
\* step, the step into future_snapshot included, the traced galaxy is the
\* first progenitor of its descendant.
C9_RemainsUntilFuture ==
    (pc = "returned" /\ result.tag = "pair" /\ result.merged_snapshot = -1) =>
        \A s \in (snapshot + 1)..future_snapshot :
            /\ result.history[s + 1] # ZeroRecord
            /\ FwdInd(cat, snapshot, start_ind, s) # -1
            /\ TrueLink(cat, s, FwdInd(cat, snapshot, start_ind, s), "FirstProgenitor")
                   = FwdInd(cat, snapshot, start_ind, s - 1)

C11_PairWhenPassed ==
    (pc = "returned" /\ log[1][4] # -1) =>
        /\ result.tag = "pair"
        /\ result.merged_snapshot = merged_snapshot

\* slot s of the history was written during the call
Visited(s) == \E k \in 1..Len(log) : log[k] = <<"hist", s>>

\* C12: the returned history has exactly future_snapshot + 1 slots; every
\* slot that neither phase visited is a zero-valued record; the
\* start_snapshot slot holds the record of the starting galaxy.
C12_HistoryFrame ==
    pc = "returned" =>
        /\ Len(result.history) = future_snapshot + 1
        /\ \A s \in 0..future_snapshot :
              ~Visited(s) => result.history[s + 1] = ZeroRecord
        /\ result.history[snapshot + 1] = TrueRecord(cat, snapshot, start_ind)
        /\ result.history[snapshot + 1].ID = gal_id

\* a call has returned a history with a slot left at zero below the
\* formation snapshot and one left at zero after the end of the descendant
\* chain, around populated slots of both phases
C12_Witness ==
    /\ pc = "returned" /\ result.tag = "pair"
    /\ Len(result.history) = future_snapshot + 1
    /\ ~Visited(0) /\ result.history[1] = ZeroRecord
    /\ Visited(snapshot - 1) /\ Visited(snapshot + 1)
    /\ ~Visited(future_snapshot)
    /\ result.history[future_snapshot + 1] = ZeroRecord
    /\ result.history[snapshot + 1].ID = gal_id

\* C16: when no galaxy of start_snapshot has the requested ID the call
\* fails with a not-found error (IndexError) before any link array is read
\* and returns no history.
C16_NotFound ==
    (pc # "idle" /\ gal_id \notin IdsAt(cat, snapshot)) =>
        /\ pc = "raised"
        /\ result.exc = "IndexError"
        /\ result.history = <<>>
        /\ ~HasRead("fp") /\ ~HasRead("desc")
        /\ log = << <<"call", gal_id, snapshot, future_snapshot>>,
                    <<"gals", snapshot>> >>

\* a call for an ID that no galaxy of the snapshot has, with a future
\* snapshot passed, has failed right after the records were read
C16_Witness ==
    /\ pc = "raised" /\ result.exc = "IndexError"
    /\ gal_id \notin IdsAt(cat, snapshot)
    /\ snapshot >= 2 /\ future_snapshot > snapshot
    /\ Len(log) = 2

----------------------------------------------------------------------------
(* Further properties of the stitcher, checked under SpecStitch.           *)

\* the last snapshot of a catalog
LastOf(c) == CHOOSE s \in c.Snaps : \A t \in c.Snaps : t <= s

\* C13: read_firstprogenitor_indices at snapshot 0 and
\* read_descendant_indices at the last snapshot fail with a lookup error
\* (KeyError) and return no array.
C13_BoundaryLookup ==
    ((kind = "FirstProgenitor" /\ snapshot = 0)
        \/ (kind = "Descendant" /\ snapshot = LastOf(cat))) =>
        /\ out.err = "KeyError"
        /\ out.val = <<>>

\* read_descendant_indices has failed with a lookup error at the last
\* snapshot, whose own group exists and holds galaxies in several partitions
C13_Witness ==
    /\ kind = "Descendant" /\ snapshot = LastOf(cat) /\ snapshot \in cat.Snaps
    /\ out.err = "KeyError"
    /\ \E i \in 1..(cat.NCores - 1) : GalaxiesBefore(cat.Snap[snapshot], i) > 0

C15_InconsistentFatal ==
    (kind # "none" /\ snapshot = 1
        /\ LinksBefore(cat.Snap[1], cat.NCores, kind) # cat.Snap[1].NGalaxies) =>
        /\ out.err # "none"
        /\ out.val = <<>>

total_count(c, s) == c.Snap[s].NGalaxies

\* every raw link of kind k at snapshot s is -1 or a local index of the
\* same-numbered partition of the destination snapshot, and the partitions
\* of both snapshots hold the declared number of galaxies
WellFormed(c, k, s) ==
    /\ s \in c.Snaps /\ Destination(k, s) \in c.Snaps
    /\ LinksBefore(c.Snap[s], c.NCores, k) = total_count(c, s)
    /\ GalaxiesBefore(c.Snap[Destination(k, s)], c.NCores)
          = total_count(c, Destination(k, s))
    /\ \A i \in 0..(c.NCores - 1) :
          LET raw == RawLinks(c.Snap[s], i, k)
              n == Len(c.Snap[Destination(k, s)].Core[i + 1].Galaxies)
          IN  \A p \in 1..Len(raw) : raw[p] = -1 \/ (raw[p] >= 0 /\ raw[p] < n)

\* C19: for a well-formed catalog every element of the stitched array, at
\* every global position 0..NGalaxies-1, is -1 or an integer of
\* 0..total_count(destination snapshot)-1.
C19_StitchedRange ==
    (kind # "none" /\ WellFormed(cat, kind, snapshot)) =>
        /\ out.err = "none"
        /\ Len(out.val) = total_count(cat, snapshot)
        /\ \A g \in 1..total_count(cat, snapshot) :
              \/ out.val[g] = -1
              \/ /\ out.val[g] >= 0
                 /\ out.val[g] < total_count(cat, Destination(kind, snapshot))

\* a Descendant stitch of a well-formed catalog has returned the last index
\* of the destination snapshot, from a partition with a non-zero offset,
\* next to a sentinel
C19_Witness ==
    /\ kind = "Descendant" /\ WellFormed(cat, kind, snapshot) /\ Returned
    /\ GalaxiesBefore(cat.Snap[snapshot + 1], cat.NCores - 1) > 0
    /\ \E g, h \in 1..Len(out.val) :
          /\ out.val[g] = total_count(cat, snapshot + 1) - 1
          /\ out.val[h] = -1

\* C20: read_nextprogenitor_indices(s) returns every raw value r >= 0 of
\* partition i as r + (sum of the sizes of partitions 0..i-1 of snapshot s
\* itself), whatever the partition sizes of snapshots s-1 and s+1.
C20_NextProgenitorOwnOffsets ==
    (Returned /\ kind = "NextProgenitor") =>
        \A i \in 0..(cat.NCores - 1) :
            LET raw == RawLinks(cat.Snap[snapshot], i, kind)
                at == LinksBefore(cat.Snap[snapshot], i, kind)
                off == GalaxiesBefore(cat.Snap[snapshot], i)
            IN  \A p \in 1..Len(raw) :
                    raw[p] >= 0 => out.val[at + p] = raw[p] + off

\* a NextProgenitor stitch of snapshot 1 has returned a value of a partition
\* whose offset in snapshot 1 is not 0 and is neither its offset in snapshot
\* 0 nor its offset in snapshot 2
C20_Witness ==
    /\ Returned /\ kind = "NextProgenitor" /\ snapshot = 1
    /\ \E i \in 1..(cat.NCores - 1) :
         LET raw == RawLinks(cat.Snap[1], i, kind)
             at == LinksBefore(cat.Snap[1], i, kind)
             off == GalaxiesBefore(cat.Snap[1], i)
         IN  /\ off > 0
             /\ off # GalaxiesBefore(cat.Snap[0], i)
             /\ off # GalaxiesBefore(cat.Snap[2], i)
             /\ \E p \in 1..Len(raw) : raw[p] >= 0 /\ out.val[at + p] = raw[p] + off

----------------------------------------------------------------------------
(* The round trip, checked under Spec on the catalogs of the walker, whose *)
(* raw links are mutually consistent.                                      *)

\* C18: for every snapshot k and every galaxy g of k that has a descendant
\* and is the first progenitor of that descendant (by the raw links of its
\* partition), FirstProgenitor_stitched(k+1)[Descendant_stitched(k)[g]] = g;
\* stated of the catalog before a call and after a call has returned.
C18_RoundTrip ==
    pc \in {"idle", "returned"} =>
    \A k \in 0..(LastSnap - 1) :
        LET desc == read_descendant_indices(cat, k)
            fp == read_firstprogenitor_indices(cat, k + 1)
        IN  /\ desc.err = "none" /\ fp.err = "none"
            /\ \A i \in 0..(cat.NCores - 1) :
                  LET raw_desc == RawLinks(cat.Snap[k], i, "Descendant")
                      raw_fp == RawLinks(cat.Snap[k + 1], i, "FirstProgenitor")
                  IN  \A p \in 1..Len(raw_desc) :
                         (raw_desc[p] >= 0 /\ raw_fp[raw_desc[p] + 1] = p - 1) =>
                            LET g == GalaxiesBefore(cat.Snap[k], i) + p - 1
                            IN  fp.val[desc.val[g + 1] + 1] = g

\* the walker has followed a galaxy of a partition whose offset changes from
\* one snapshot to the next over two forward steps, and the FirstProgenitor
\* link of its descendant led back to it
C18_Witness ==
    /\ pc = "returned" /\ result.tag = "pair" /\ result.merged_snapshot = -1
    /\ future_snapshot >= snapshot + 2
    /\ \E k \in 1..Len(log) : log[k] = <<"fp", snapshot + 1>>
    /\ start_ind >= GalaxiesBefore(cat.Snap[snapshot], cat.NCores - 1)
    /\ GalaxiesBefore(cat.Snap[snapshot], cat.NCores - 1)
          # GalaxiesBefore(cat.Snap[snapshot + 1], cat.NCores - 1)
    /\ LET d == read_descendant_indices(cat, snapshot).val[start_ind + 1]
       IN  /\ d # -1
           /\ read_firstprogenitor_indices(cat, snapshot + 1).val[d + 1] = start_ind

----------------------------------------------------------------------------
(* Further properties of the walker, checked under Spec.                   *)

\* the error of the read that a log entry records ("none": it returns)
ReadErr(c, e) ==
    IF e[1] = "fp" THEN read_firstprogenitor_indices(c, e[2]).err
    ELSE IF e[1] = "desc" THEN read_descendant_indices(c, e[2]).err
    ELSE IF e[1] = "gals" THEN read_gals(c, e[2], None).err
    ELSE "none"

Ended == pc \in {"returned", "raised"}

\* C21: an error raised by a stitch call or a record fetch inside the call
\* reaches the caller unchanged: the read that failed is the last thing the
\* call did (no retry, nothing after it), the call raised that error and
\* returned no history.
C21_ErrorPropagation ==
    Ended =>
        \A k \in 1..Len(log) :
            ReadErr(cat, log[k]) # "none" =>
                /\ k = Len(log)
                /\ pc = "raised"
                /\ result.tag = "raise"
                /\ result.exc = ReadErr(cat, log[k])
                /\ result.history = <<>>

\* a call with future_snapshot beyond the last snapshot has raised the
\* lookup error of the Descendant read at the last snapshot, after both
\* phases had filled slots of the history
C21_Witness ==
    /\ pc = "raised" /\ result.exc = "KeyError" /\ result.history = <<>>
    /\ future_snapshot = LastSnap + 1
    /\ log[Len(log)] = <<"desc", LastSnap>>
    /\ Visited(snapshot - 1) /\ Visited(LastSnap)
    /\ snapshot < LastSnap

\* the stored record with a given ID at snapshot s
RawById(c, s, id) ==
    CHOOSE r \in UNION { { c.Snap[s].Core[i].Galaxies[p] :
                           p \in 1..Len(c.Snap[s].Core[i].Galaxies) } :
                         i \in 1..c.NCores } : r.ID = id

\* C22: the result of a call is the same whatever operation of the io
\* module ran before it: every populated slot holds the stored values of its
\* galaxy, also after set_little_h.
C22_NoSharedState ==
    pc = "returned" =>
        \A s \in 0..future_snapshot :
            Visited(s) =>
                result.history[s + 1].Mvir
                    = RawById(cat, s, result.history[s + 1].ID).Mvir

\* C22 (amended): the result depends on the operations that ran before only
\* through the little h that set_little_h stored in the module: every
\* populated slot holds the stored values of its galaxy scaled with that h
\* (unscaled when none is set), and the call does not change the stored h.
C22_LittleHOnly ==
    [][/\ pc # "idle" => meraxes_h' = meraxes_h
       /\ pc' = "returned" =>
            \A s \in 0..future_snapshot' :
                (\E k \in 1..Len(log') : log'[k] = <<"hist", s>>) =>
                    result'.history[s + 1].Mvir =
                        IF meraxes_h'.set
                        THEN (2 * RawById(cat', s, result'.history[s + 1].ID).Mvir)
                                 \div meraxes_h'.halves
                        ELSE RawById(cat', s, result'.history[s + 1].ID).Mvir]_vars

\* a call made after set_little_h(0.5) has returned a history of several
\* snapshots whose masses are the stored ones divided by 0.5
C22_Witness ==
    /\ pc = "returned" /\ meraxes_h = H(1)
    /\ Visited(snapshot - 1) /\ Visited(snapshot + 1)
    /\ \A s \in {snapshot - 1, snapshot, snapshot + 1} :
          result.history[s + 1].Mvir
              = 2 * RawById(cat, s, result.history[s + 1].ID).Mvir

\* C24: after a merger was recorded the forward phase keeps recording: for
\* every s with merged_snapshot <= s <= future_snapshot that the descendant
\* chain reaches, slot s holds the record of the descendant at s.
C24_RecordsAfterMerge ==
    (pc = "returned" /\ result.tag = "pair" /\ result.merged_snapshot # -1) =>
        \A s \in result.merged_snapshot..future_snapshot :
            FwdInd(cat, snapshot, start_ind, s) # -1 =>
                /\ result.history[s + 1]
                      = TrueRecord(cat, s, FwdInd(cat, snapshot, start_ind, s))
                /\ result.history[s + 1] # ZeroRecord

\* a call has returned a merger and, two snapshots after it, the record of
\* the descendant at future_snapshot
C24_Witness ==
    /\ pc = "returned" /\ result.tag = "pair" /\ result.merged_snapshot # -1
    /\ future_snapshot >= result.merged_snapshot + 2
    /\ FwdInd(cat, snapshot, start_ind, future_snapshot) # -1
    /\ result.history[future_snapshot + 1]
          = TrueRecord(cat, future_snapshot,
                       FwdInd(cat, snapshot, start_ind, future_snapshot))

\* C25: when the Descendant link looked up for the step into snapshot snap
\* is -1 the forward phase ends at once: no FirstProgenitor array is read for
\* snap, merged_snapshot and every slot of the history keep their values, and
\* the slots snap..future_snapshot are zero.
C25_ForwardStop ==
    [][(pc = "forward" /\ (snap - 1) \in cat.Snaps /\ snap \in cat.Snaps
          /\ TrueLink(cat, snap - 1, ind, "Descendant") = -1) =>
            /\ pc' = "return"
            /\ log' = Append(log, <<"desc", snap - 1>>)
            /\ merged_snapshot' = merged_snapshot
            /\ history' = history
            /\ \A t \in snap..future_snapshot : history'[t + 1] = ZeroRecord]_vars

\* a call has returned after its descendant chain broke before
\* future_snapshot, with a merger recorded earlier and slots of both phases
\* populated
C25_Witness ==
    /\ pc = "returned" /\ result.tag = "pair" /\ result.merged_snapshot # -1
    /\ \E t \in (snapshot + 2)..future_snapshot :
          /\ log[Len(log)] = <<"desc", t - 1>>
          /\ FwdInd(cat, snapshot, start_ind, t) = -1
          /\ Visited(t - 1)
          /\ \A u \in t..future_snapshot : result.history[u + 1] = ZeroRecord
    /\ Visited(snapshot - 1)

\* the positions of the log at which a history slot was written
HistEvents == {k \in 1..Len(log) : log[k][1] = "hist"}

\* the positions of the log at which a Descendant array was read
DescEvents == {k \in 1..Len(log) : log[k][1] = "desc"}

\* C27: the backward phase writes the slots start_snapshot,
\* start_snapshot-1, ... one at a time in decreasing order and ends before
\* the forward phase begins; the forward phase starts from start_ind at
\* start_snapshot and writes start_snapshot+1, ..., future_snapshot in
\* increasing order; no slot is written twice.
C27_VisitOrder ==
    pc # "idle" =>
        /\ \A a \in HistEvents :
              /\ (\A b \in HistEvents : b >= a) => log[a][2] = snapshot
              /\ \A b \in HistEvents :
                    (a < b /\ \A m \in HistEvents : ~(a < m /\ m < b)) =>
                        LET x == log[a][2]
                            y == log[b][2]
                        IN  \/ /\ y = x - 1 /\ x <= snapshot
                               /\ \A d \in DescEvents : d > b
                            \/ /\ y = snapshot + 1 /\ x <= snapshot
                               /\ \E d \in DescEvents : a < d /\ d < b
                            \/ /\ y = x + 1 /\ x > snapshot /\ y <= future_snapshot
                               /\ \E d \in DescEvents : a < d /\ d < b
              /\ \A b \in HistEvents : a # b => log[a][2] # log[b][2]
        /\ \A d \in DescEvents :
              (\A m \in DescEvents : m >= d) => log[d] = <<"desc", snapshot>>
        /\ (pc = "forward" /\ snap = snapshot + 1) => ind = start_ind

\* a call has returned after a backward phase and a forward phase of
\* several snapshots each, the forward phase having started from a start
\* index that is not the index the backward phase ended on
C27_Witness ==
    /\ pc = "returned" /\ result.tag = "pair"
    /\ Visited(snapshot - 2) /\ Visited(snapshot + 2)
    /\ start_ind # -1
    /\ result.history[snapshot + 2]
          = TrueRecord(cat, snapshot + 1,
                       TrueLink(cat, snapshot, start_ind, "Descendant"))

\* the number of passes of the backward and of the forward loop so far
BackwardSteps == Cardinality({k \in 1..Len(log) :
                                log[k][1] = "gals" /\ log[k][2] < snapshot})

ForwardSteps == Cardinality(DescEvents)

\* the call is running
Active == pc \in {"backward", "forward", "return"}

\* the number of steps a call in frame f can still take, at most
Remaining(f) ==
    IF f.pc = "backward" THEN (f.snap + 1) + (f.future_snapshot - f.snapshot) + 1
    ELSE IF f.pc = "forward" THEN (f.future_snapshot + 1 - f.snap) + 1
    ELSE IF f.pc = "return" THEN 1
    ELSE 0

\* the frame after the next step of a running call
StepOf(c, f) ==
    IF f.pc = "backward" THEN Backward(c, f)
    ELSE IF f.pc = "forward" THEN Forward(c, f)
    ELSE Return(f)

\* C28: the backward phase takes at most start_snapshot steps and the
\* forward phase at most future_snapshot - start_snapshot steps, and every
\* call returns or raises: a running call can always take its next step, and
\* that step lowers the number of steps that remain, which is never negative.
C28_Terminates ==
    pc # "idle" =>
        /\ BackwardSteps <= snapshot
        /\ ForwardSteps > 0 => ForwardSteps <= future_snapshot - snapshot
        /\ Active =>
              LET f == StepOf(cat, Frame)
              IN  /\ f.pc \in {"backward", "forward", "return", "returned", "raised"}
                  /\ Remaining(f) < Remaining(Frame)
                  /\ Remaining(f) >= 0
        /\ ~Active => Ended

\* a call has returned after the most forward steps its arguments allow,
\* during which the index of the traced galaxy came back to its first value
C28_Witness ==
    /\ pc = "returned"
    /\ BackwardSteps >= 2
    /\ ForwardSteps = future_snapshot - snapshot /\ ForwardSteps >= 2
    /\ \E t \in (snapshot + 2)..future_snapshot :
          /\ FwdInd(cat, snapshot, start_ind, t) = start_ind
          /\ FwdInd(cat, snapshot, start_ind, t - 1) # start_ind

C30_EarlierFuture ==
    (pc # "idle" /\ gal_id \in IdsAt(cat, snapshot)
        /\ log[1][4] >= 0 /\ log[1][4] < snapshot) =>
        /\ pc = "raised"
        /\ result.exc = "IndexError"
        /\ result.history = <<>>
        /\ ~HasRead("fp") /\ ~HasRead("desc")

\* a call for a galaxy of the snapshot, with future_snapshot two or more
\* snapshots earlier, has failed before any link array was read
C30_Witness ==
    /\ pc = "raised" /\ result.exc = "IndexError"
    /\ gal_id \in IdsAt(cat, snapshot)
    /\ log[1][4] = 0 /\ snapshot >= 2
    /\ Len(history) = 1
    /\ ~HasRead("fp")

----------------------------------------------------------------------------
(* The offset mask, checked under SpecStitch.                              *)

----------------------------------------------------------------------------
(* Record fetch by index.  The catalogs are those of the stitcher with     *)
(* consistent metadata; one call of read_gals is made on a snapshot, for a *)
(* set of distinct global indices of its galaxies, passed in ascending or  *)
(* in descending order, or for all its galaxies.                           *)

\* cat is one of the catalogs the record fetch is run on
IsFetchCatalog ==
    \E d \in DestLayouts, j \in 1..NCores, n \in 0..MaxCoreGals :
        cat = StitchCatalog(d, j, NoLinks(n), 0)

InitFetch ==
    /\ IsFetchCatalog
    /\ pc = "idle"
    /\ gal_id = 0
    /\ snapshot = 0
    /\ future_snapshot = 0
    /\ start_ind = 0
    /\ merged_snapshot = -1
    /\ history = <<>>
    /\ ind = 0
    /\ last_ind = 0
    /\ snap = 0
    /\ result = NoResult
    /\ log = <<>>
    /\ kind = "none"
    /\ out = Ok(<<>>)
    /\ meraxes_h = NoH

\* the sequence a in reverse order
Reverse(a) == [k \in 1..Len(a) |-> a[Len(a) + 1 - k]]

\* read_gals(fname, snapshot=s, indices=I) is called
ReadGalsIndexed ==
    /\ kind = "none"
    /\ \E s \in cat.Snaps :
       \E I \in SUBSET (0..(GalaxiesBefore(cat.Snap[s], cat.NCores) - 1)) :
       \E order \in {"ascending", "descending"} :
          /\ kind' = "Galaxies"
          /\ snapshot' = s
          /\ out' = read_gals(cat, s, List(IF order = "ascending" THEN Ascending(I)
                                           ELSE Reverse(Ascending(I))))
          /\ log' = Append(log, <<"Galaxies", s, I, order>>)
    /\ UNCHANGED <<cat, pc, gal_id, future_snapshot, start_ind, merged_snapshot,
                   history, ind, last_ind, snap, result, meraxes_h>>

\* read_gals(fname, snapshot=s) is called
ReadGalsAll ==
    /\ kind = "none"
    /\ \E s \in cat.Snaps :
          /\ kind' = "AllGalaxies"
          /\ snapshot' = s
          /\ out' = read_gals(cat, s, None)
          /\ log' = Append(log, <<"AllGalaxies", s>>)
    /\ UNCHANGED <<cat, pc, gal_id, future_snapshot, start_ind, merged_snapshot,
                   history, ind, last_ind, snap, result, meraxes_h>>

NextFetch == ReadGalsIndexed \/ ReadGalsAll

SpecFetch == InitFetch /\ [][NextFetch]_vars

\* C23: read_gals(snapshot, indices=I), for a set I of distinct valid global
\* indices, returns exactly |I| records: the records of the galaxies at the
\* indices of I in ascending order, with the offset-corrected CentralGal,
\* equal to the elements the full read returns at these indices.
C23_FetchByIndex ==
    kind = "Galaxies" =>
        LET I == log[1][3]
            asc == Ascending(I)
            full == read_gals(cat, snapshot, None)
        IN  /\ out.err = "none"
            /\ Len(out.val) = Cardinality(I)
            /\ \A k \in 1..Len(asc) :
                  /\ out.val[k] = TrueRecord(cat, snapshot, asc[k])
                  /\ full.err = "none" => out.val[k] = full.val[asc[k] + 1]

\* a fetch of several indices passed in descending order has returned
\* records of two partitions, the later one with a non-zero offset, the
\* first record returned being the one of the lowest index
C23_Witness ==
    /\ kind = "Galaxies" /\ out.err = "none"
    /\ log[1][4] = "descending"
    /\ Len(out.val) >= 2
    /\ out.val[1].CentralGal = 0
    /\ out.val[Len(out.val)].CentralGal > 0
    /\ out.val[1].ID < out.val[Len(out.val)].ID
    /\ read_gals(cat, snapshot, None).err = "none"

====
